---- MODULE Spec2Model ----
(***************************************************************************)
(* Model of tuna.stats.api (orchestration of univariate / bivariate /      *)
(* stationary statistics) and tuna.stats.two (Bivariate and                *)
(* StationaryBivariate containers).                                        *)
(*                                                                         *)
(* An API call is one action.  The handler is evaluated as a "run": a      *)
(* record [st, ev, exc, ret] threaded through the statements of the        *)
(* handler in source order.  st is the program state, ev the ordered log   *)
(* of the externally visible steps of the call (validation, container      *)
(* construction, iterator acquisition, engine call, cache read/write,      *)
(* Univariate entry update), exc the exception raised ("none" if the call  *)
(* returns) and ret the returned container.  A statement is skipped once   *)
(* exc is set, as Python skips the rest of a function after a raise.       *)
(***************************************************************************)
EXTENDS Integers, Sequences, FiniteSets, TLC

VARIABLES univ, entries, cache, containers, eval_times, last, ncalls, inp, disk

vars == <<univ, entries, cache, containers, eval_times, last, ncalls, inp, disk>>

(***************************************************************************)
(* Bounds                                                                  *)
(***************************************************************************)
MaxCalls == 2
SizeLimit == 3
MaxCset == 2
MaxTime == 6
MaxPeriod == 3
MaxCacheCalls == 4

(***************************************************************************)
(* Program constants                                                       *)
(***************************************************************************)
MIN_INTERDIVISION_TIME == 5

(***************************************************************************)
(* FilterSet objects and their canonical text repr().  Objects 2 and 3 are *)
(* distinct objects with the same repr, as are 5 and 6.                    *)
(***************************************************************************)
CondObjs == 1..4
FsetObjs == 5..7

Repr(f) ==
    CASE f = 1 -> "cA"
      [] f = 2 -> "cB"
      [] f = 3 -> "cB"
      [] f = 4 -> "cC"
      [] f = 5 -> "F0"
      [] f = 6 -> "F0"
      [] f = 7 -> "F1"

UnivIds == 1..3

Modes == {"dynamics", "birth", "division"}
Timings == {"t", "b", "g"}

(* The Univariates the calls are made on: 1 and 2 pair (same experiment,   *)
(* filter sets with equal repr, overlapping conditions); 3 comes from      *)
(* another experiment.                                                     *)
Pool ==
    [u \in UnivIds |->
        CASE u = 1 -> [abspath |-> "expA", fset |-> 5, cset |-> <<1, 2>>,
                       obs |-> [label |-> "length", mode |-> "dynamics", timing |-> "t"]]
          [] u = 2 -> [abspath |-> "expA", fset |-> 6, cset |-> <<3, 4>>,
                       obs |-> [label |-> "width", mode |-> "dynamics", timing |-> "t"]]
          [] u = 3 -> [abspath |-> "expB", fset |-> 5, cset |-> <<1>>,
                       obs |-> [label |-> "width", mode |-> "dynamics", timing |-> "t"]]]

ObsStr(u) == univ[u].obs.label

(* Region and options arguments.  A region is what hasattr() can see of    *)
(* it; options is its type and the attributes it carries.                  *)
RegionAttrs == {"name", "tmin", "tmax"}
OptionAttrs == {"adjust_mean", "disjoint", "as_string_code"}

ValidRegion == [attrs |-> RegionAttrs]
NamelessRegion == [attrs |-> {"tmin", "tmax"}]
CompuParams == [isCompuParams |-> TRUE, attrs |-> OptionAttrs]
DuckOptions == [isCompuParams |-> FALSE, attrs |-> OptionAttrs]
NoneOptions == [isCompuParams |-> FALSE, attrs |-> {}]
SubclassOptions == [isCompuParams |-> TRUE, attrs |-> OptionAttrs \cup {"extra"}]

(* (region, options) given to the stationary calls: valid, a region       *)
(* without name, options of another type that carry the same attributes.   *)
ParamArgs ==
    {[region |-> ValidRegion, options |-> CompuParams],
     [region |-> NamelessRegion, options |-> CompuParams],
     [region |-> ValidRegion, options |-> DuckOptions]}
SizeArgs == {0, SizeLimit}

(***************************************************************************)
(* Univariate entries (master + one per condition)                         *)
(***************************************************************************)
NoRef == [c |-> 0, lab |-> ""]
EmptyDict == [x \in {} |-> NoRef]
DictSet(d, k, v) == [x \in (DOMAIN d) \cup {k} |-> IF x = k THEN v ELSE d[x]]

Range(s) == {s[i] : i \in DOMAIN s}
LabelsOf(cset) == {"master"} \cup {Repr(c) : c \in Range(cset)}

EmptyEntry == [stationary |-> "None", two |-> EmptyDict, two_stationary |-> EmptyDict]

(***************************************************************************)
(* The analysis folder of the experiment, as tuna.io.text lays it out:     *)
(* analysis root / filter set / condition / pair of observables / files.   *)
(* disk.dirs is the set of folders that exist, disk.files maps each file   *)
(* that exists to its content.  One experiment, one filter set and one     *)
(* pair of observables are on the disk, so a folder is named by its level  *)
(* and condition label.  A file content is a table: the ordered names of   *)
(* its header (or row tags), its rows of numbers as numerators over den,   *)
(* and the container that wrote it (0: written before the run).            *)
(***************************************************************************)
Dir(d, lab) == [d |-> d, lab |-> lab]
AnalysisDir == Dir("analysis", "")
FilterDir == Dir("filter", "")
CondDir(lab) == Dir("condition", lab)
BiobsDir(lab) == Dir("biobservable", lab)
File(lab, name) == [d |-> "biobservable", lab |-> lab, f |-> name]
CsvFile == [d |-> "filter", lab |-> "", f |-> "data.csv"]
EmptyDisk == [dirs |-> {}, files |-> EmptyDict]
Table(by, names, den, rows) == [by |-> by, names |-> names, den |-> den, rows |-> rows]

(***************************************************************************)
(* Values held by the items of a container.  A field is None, the alias of *)
(* the Univariates' eval_times, or an array: rows of numbers (numerators   *)
(* over den) with the names of its columns when it is a structured array.  *)
(***************************************************************************)
None == [is |-> "None", names |-> <<>>, den |-> 1, rows |-> <<>>]
EvalTimesAlias == [is |-> "eval_times", names |-> <<>>, den |-> 1, rows |-> <<>>]
Array(names, den, rows) == [is |-> "array", names |-> names, den |-> den, rows |-> rows]

(***************************************************************************)
(* Runs                                                                    *)
(***************************************************************************)
Start == [st |-> [entries |-> entries, cache |-> cache, containers |-> containers,
                  eval_times |-> eval_times, disk |-> disk],
          ev |-> <<>>, exc |-> "none", ret |-> 0]
Ok(r) == r.exc = "none"
Raise(r, e) == [r EXCEPT !.exc = e]
Log(r, e, a) == [r EXCEPT !.ev = Append(@, [e |-> e, a |-> a])]

(***************************************************************************)
(* Collaborators of api.py that live outside the two modelled files:       *)
(* the lineage iterators, the aggregation engine and StationaryUnivariate  *)
(* (tuna.stats.utils, tuna.stats.compute, tuna.stats.single).              *)
(***************************************************************************)
iter_timeseries_(r, u, size) ==
    IF ~Ok(r) THEN r ELSE Log(r, "iter1", size)

iter_timeseries_2(r, size) ==
    IF ~Ok(r) THEN r ELSE Log(r, "iter2", size)

(* The engine fills the container in one pass; fails is the environment's  *)
(* choice of the engine raising part-way.                                  *)
set_stationary_autocorrelation(r, u, fails) ==
    IF ~Ok(r) THEN r
    ELSE IF fails THEN Raise(Log(r, "engine_auto", u), "EngineError")
    ELSE Log(r, "engine_auto", u)

(* What the sampling period and the engine give in a run: inp when the run *)
(* draws them, one sample otherwise.  period8 is the sampling period in    *)
(* eighths of a time unit; cross is a cross-statistic; crossname is the    *)
(* name the engine gives the cross-correlation column; dataframe tells     *)
(* whether the engine attaches the tabular export.                         *)
SampleData == [period8 |-> 8, cross |-> 12, crossname |-> "cross_correlation", dataframe |-> TRUE]
EngineData == IF "cross" \in DOMAIN inp THEN inp ELSE SampleData

UnivTimes == [i \in 1..2 |-> (i - 1) * EngineData.period8]

FilledItem(kind) ==
    IF kind = "Bivariate"
    THEN [times |-> EvalTimesAlias,
          counts |-> Array(<<>>, 1, <<<<7>>>>),
          cross |-> Array(<<>>, 1, <<<<EngineData.cross>>>>),
          std_dev |-> Array(<<>>, 1, <<<<EngineData.cross + 1>>>>)]
    ELSE [array |-> Array(<<"time_interval", "count", EngineData.crossname>>, 1,
                          <<<<0, 7, EngineData.cross>>>>)]

FilledDataframe(kind) ==
    IF kind = "StationaryBivariate" /\ EngineData.dataframe THEN "DataFrame" ELSE "None"

SetContainerStatus(r, c, status) ==
    IF status = "filled"
    THEN [r EXCEPT !.st.containers[c].status = status,
                   !.st.containers[c].data =
                        [lab \in DOMAIN @ |-> FilledItem(r.st.containers[c].kind)],
                   !.st.containers[c].dataframe = FilledDataframe(r.st.containers[c].kind)]
    ELSE [r EXCEPT !.st.containers[c].status = status]

set_crosscorrelation(r, two, fails) ==
    IF ~Ok(r) THEN r
    ELSE IF fails THEN Raise(SetContainerStatus(Log(r, "engine_cross", two), two, "partial"), "EngineError")
    ELSE SetContainerStatus(Log(r, "engine_cross", two), two, "filled")

set_stationary_crosscorrelation(r, stwo, fails) ==
    IF ~Ok(r) THEN r
    ELSE IF fails THEN Raise(SetContainerStatus(Log(r, "engine_scross", stwo), stwo, "partial"), "EngineError")
    ELSE SetContainerStatus(Log(r, "engine_scross", stwo), stwo, "filled")

(* StationaryUnivariate(univ, region, options): allocates empty items.     *)
StationaryUnivariate(r, u) ==
    IF ~Ok(r) THEN r ELSE Log(r, "new_sunivar", u)

(* StationaryUnivariate.import_from_text: raises the entity's cache-miss   *)
(* error when the cache holds nothing for it, another error when the       *)
(* environment makes the read fail otherwise (corrupt).                    *)
SUnivar_import_from_text(r, u, corrupt) ==
    IF ~Ok(r) THEN r
    ELSE IF u \notin r.st.cache THEN Raise(Log(r, "read_miss", u), "StationaryUnivariateIOError")
    ELSE IF corrupt THEN Raise(Log(r, "read_err", u), "OtherError")
    ELSE Log(r, "read_ok", u)

SUnivar_export_text(r, u) ==
    IF ~Ok(r) THEN r
    ELSE [Log(r, "write_sunivar", u) EXCEPT !.st.cache = @ \cup {u}]

(***************************************************************************)
(* api.py: single dynamic observable.  Times are fractions num/den over a  *)
(* common denominator: 1 for real timing, MIN_INTERDIVISION_TIME for       *)
(* generation timing (n_max = span / MIN_INTERDIVISION_TIME, period = 1).  *)
(***************************************************************************)
set_dynamics(r, fails) ==
    IF ~Ok(r) THEN r
    ELSE IF fails THEN Raise(Log(r, "engine_dynamics", 0), "EngineError")
    ELSE Log(r, "engine_dynamics", 0)

CeilDiv(a, b) == -((-a) \div b)

(* np.arange(start, stop, step): ceil((stop - start) / step) points        *)
Arange(start, stop, step) ==
    LET n == IF stop > start THEN CeilDiv(stop - start, step) ELSE 0
    IN  [i \in 1..n |-> start + (i - 1) * step]

GridStopExclusive(tmax, period) == tmax

(* the stop argument given to np.arange: tmax + period                     *)
GridStop(tmax, period) == tmax + period

EvalTimes(timing, region, exp_period) ==
    IF timing # "g"
    THEN [den |-> 1, tmin |-> region.tmin, tmax |-> region.tmax, period |-> exp_period,
          pts |-> Arange(region.tmin, GridStop(region.tmax, exp_period), exp_period)]
    ELSE LET n_max == region.tmax - region.tmin
             den == MIN_INTERDIVISION_TIME
         IN  [den |-> den, tmin |-> -n_max, tmax |-> n_max, period |-> den,
              pts |-> Arange(-n_max, GridStop(n_max, den), den)]

Univariate(r, timing, region, exp_period) ==
    IF ~Ok(r) THEN r
    ELSE [Log(r, "new_univar", 0) EXCEPT !.st.eval_times = EvalTimes(timing, region, exp_period)]

compute_univariate_dynamics(r, timing, region, exp_period, size, fails) ==
    LET r1 == Univariate(r, timing, region, exp_period)
        r2 == iter_timeseries_(r1, 0, size)
    IN  set_dynamics(r2, fails)

initialize_univariate(r, timing, region, exp_period) ==
    Univariate(r, timing, region, exp_period)

(***************************************************************************)
(* api.py: stationary univariate                                           *)
(***************************************************************************)
ParamsOutcomeNoName(region, options) ==
    IF ~options.isCompuParams THEN "ParamsError"
    ELSE IF ("tmin" \notin region.attrs) \/ ("tmax" \notin region.attrs) THEN "ParamsError"
    ELSE "none"

ParamsOutcome(region, options) ==
    IF ~options.isCompuParams THEN "ParamsError"
    ELSE IF ("tmin" \notin region.attrs) \/ ("tmax" \notin region.attrs)
             \/ ("name" \notin region.attrs) THEN "ParamsError"
    ELSE "none"

_check_params(r, region, options) ==
    IF ~Ok(r) THEN r
    ELSE LET o == ParamsOutcome(region, options)
         IN  IF o = "none" THEN Log(r, "check_params", 0) ELSE Raise(Log(r, "check_params", 0), o)

(* univ[lab].stationary = stat[lab] for every label of stat; the item is   *)
(* recorded by the state of its array.                                     *)
_update_univariate_from_stationary(r, u, status) ==
    IF ~Ok(r) THEN r
    ELSE [Log(r, "upd_stationary", u) EXCEPT
            !.st.entries[u] = [lab \in DOMAIN @ |-> [@[lab] EXCEPT !.stationary = status]]]

initialize_stationary_univariate(r, u, region, options) ==
    LET r1 == _check_params(r, region, options)
        r2 == StationaryUnivariate(r1, u)
    IN  _update_univariate_from_stationary(r2, u, "empty")

compute_stationary_univariate(r, u, region, options, size, fails) ==
    LET r1 == _check_params(r, region, options)
        r2 == StationaryUnivariate(r1, u)
        r3 == iter_timeseries_(r2, u, size)
        r4 == set_stationary_autocorrelation(r3, u, fails)
    IN  _update_univariate_from_stationary(r4, u, "computed")

(***************************************************************************)
(* two.py: Bivariate and StationaryBivariate construction                  *)
(***************************************************************************)
SameFilterSet(f1, f2) == Repr(f1) = Repr(f2)

PairingOutcome(s1, s2) ==
    IF s1.abspath # s2.abspath THEN "BivariateError"
    ELSE IF ~SameFilterSet(s1.fset, s2.fset) THEN "BivariateError"
    ELSE "none"

InCsetByIdentity(cdt, cset2) == cdt \in Range(cset2)

(* if repr(cdt) in map(repr, s2.cset) *)
InCset(cdt, cset2) == Repr(cdt) \in {Repr(x) : x \in Range(cset2)}

RECURSIVE CommonConditions(_, _, _)
CommonConditions(cset1, cset2, i) ==
    IF i > Len(cset1) THEN <<>>
    ELSE IF InCset(cset1[i], cset2)
         THEN <<cset1[i]>> \o CommonConditions(cset1, cset2, i + 1)
         ELSE CommonConditions(cset1, cset2, i + 1)

NewItem(cdt) ==
    [applied_filter |-> cdt, condition |-> IF cdt = 0 THEN "master" ELSE Repr(cdt)]

(* the loop "for cdt in cset": labels appended, items keyed by repr(cdt)   *)
RECURSIVE BuildItems(_, _, _)
BuildItems(cset, i, c) ==
    IF i > Len(cset) THEN c
    ELSE BuildItems(cset, i + 1,
            [c EXCEPT !.condition_labels = Append(@, Repr(cset[i])),
                      !.items = DictSet(@, Repr(cset[i]), NewItem(cset[i]))])

(* counts, cross, std_dev = None and times aliasing eval_times (two.py     *)
(* 35-38); array = None (two.py 258)                                       *)
EmptyItem(kind) ==
    IF kind = "Bivariate"
    THEN [times |-> EvalTimesAlias, counts |-> None, cross |-> None, std_dev |-> None]
    ELSE [array |-> None]

NewContainer(kind, origin, row, col) ==
    LET cset == CommonConditions(univ[row].cset, univ[col].cset, 1)
        c == BuildItems(cset, 1,
                [kind |-> kind, origin |-> origin, status |-> "empty",
                 row |-> row, col |-> col, cset |-> cset,
                 condition_labels |-> <<"master">>,
                 items |-> DictSet([x \in {} |-> NewItem(0)], "master", NewItem(0)),
                 data |-> EmptyDict, dataframe |-> "None"])
    IN  [c EXCEPT !.data = [lab \in DOMAIN c.items |-> EmptyItem(kind)]]

Bivariate(r, row, col, origin) ==
    IF ~Ok(r) THEN r
    ELSE LET o == PairingOutcome(univ[row], univ[col])
         IN  IF o # "none" THEN Raise(r, o)
             ELSE [Log(r, "new_bivar", Len(r.st.containers) + 1) EXCEPT
                     !.st.containers = Append(@, NewContainer("Bivariate", origin, row, col)),
                     !.ret = Len(r.st.containers) + 1]

(* attribute reads of StationaryBivariate.__init__ (lines 354-358) and of  *)
(* StationaryBivariateConditioned.__init__ (lines 249-251)                 *)
StationaryAttrOutcome(region, options) ==
    IF ~({"name", "tmin", "tmax"} \subseteq region.attrs) THEN "AttributeError"
    ELSE IF ~({"adjust_mean", "disjoint"} \subseteq options.attrs) THEN "AttributeError"
    ELSE IF "as_string_code" \notin options.attrs THEN "AttributeError"
    ELSE "none"

StationaryBivariate(r, row, col, region, options, origin) ==
    IF ~Ok(r) THEN r
    ELSE LET o == PairingOutcome(univ[row], univ[col])
             a == StationaryAttrOutcome(region, options)
         IN  IF o # "none" THEN Raise(r, o)
             ELSE IF a # "none" THEN Raise(r, a)
             ELSE [Log(r, "new_sbivar", Len(r.st.containers) + 1) EXCEPT
                     !.st.containers = Append(@, NewContainer("StationaryBivariate", origin, row, col)),
                     !.ret = Len(r.st.containers) + 1]

(***************************************************************************)
(* tuna.io.text and the libraries two.py writes and reads with             *)
(***************************************************************************)
MissingSignals == {"MissingFileError", "MissingFolderError"}

(* text.get_analysis_path / get_filter_path / get_condition_path /         *)
(* get_biobservable_path: the folder of one level; a missing folder is     *)
(* created when write is set and signalled otherwise.                      *)
get_path(r, d, write) ==
    IF ~Ok(r) THEN r
    ELSE IF d \in r.st.disk.dirs THEN r
    ELSE IF write THEN [r EXCEPT !.st.disk.dirs = @ \cup {d}]
    ELSE Raise(r, "MissingFolderError")

(* Univariate.export_text: writes the Univariate under the analysis,       *)
(* filter-set and condition folders, creating them.                        *)
Univariate_export_text(r, u) ==
    IF ~Ok(r) THEN r
    ELSE [r EXCEPT !.st.disk.dirs =
            @ \cup {AnalysisDir, FilterDir} \cup {CondDir(lab) : lab \in LabelsOf(univ[u].cset)}]

(* n / d rounded to the nearest integer, ties to even (n >= 0, d > 0)      *)
RoundHalfEven(n, d) ==
    LET q == n \div d
        rem == n % d
    IN  IF 2 * rem < d THEN q
        ELSE IF 2 * rem > d THEN q + 1
        ELSE IF q % 2 = 0 THEN q ELSE q + 1

(* '{:.2f}'.format(t): t = n / den written in hundredths                   *)
Fmt2f(n, den) == RoundHalfEven(n * 100, den)

(* '%.8e' of a whole number: nine significant digits                       *)
FmtE8(n) == IF n < 1000000000 THEN n ELSE RoundHalfEven(n, 10) * 10

(* fmt = ifmt if 'count' in n_ else ffmt *)
CountInName(name) == name \in {"count", "count_cross"}

FormatColumns(names, rows) ==
    [i \in DOMAIN rows |->
        [j \in DOMAIN rows[i] |->
            IF CountInName(names[j]) THEN rows[i][j] ELSE FmtE8(rows[i][j])]]

FormatMatrix(rows) == [i \in DOMAIN rows |-> [j \in DOMAIN rows[i] |-> FmtE8(rows[i][j])]]

(* open(path, 'w') and write; fails is the environment's I/O failure       *)
WriteFile(r, path, table, fails) ==
    IF ~Ok(r) THEN r
    ELSE IF fails THEN Raise(r, "OSError")
    ELSE [r EXCEPT !.st.disk.files = DictSet(@, path, table)]

(* np.savetxt(path, x, ...): the file is opened, then x is checked; an x   *)
(* that is None is not an array of one or two dimensions.                  *)
savetxt(r, path, by, x, names, rows, fails) ==
    IF ~Ok(r) THEN r
    ELSE IF fails THEN Raise(r, "OSError")
    ELSE IF x.is # "array" THEN Raise(WriteFile(r, path, Table(by, <<>>, 1, <<>>), FALSE), "ValueError")
    ELSE WriteFile(r, path, Table(by, names, 1, rows), FALSE)

(* np.genfromtxt(names=True) deletes from a column name the characters     *)
(* that cannot be part of an identifier.                                   *)
Sanitize(names) ==
    [i \in DOMAIN names |-> IF names[i] = "cross-correlation" THEN "crosscorrelation" ELSE names[i]]

(***************************************************************************)
(* two.py: text export and import                                          *)
(***************************************************************************)
BivariateConditioned_get_obs_path(r, lab, write) ==
    LET p1 == get_path(r, AnalysisDir, write)
        p2 == get_path(p1, FilterDir, write)
        p3 == get_path(p2, CondDir(lab), write)
    IN  get_path(p3, BiobsDir(lab), write)

ItemTimes(item) ==
    IF item.times.is = "eval_times"
    THEN Array(<<>>, 8, <<UnivTimes, UnivTimes>>)
    ELSE item.times

BivariateConditioned_write_text(r, c, lab, fails) ==
    LET item == r.st.containers[c].data[lab]
        times == ItemTimes(item)
        r1 == BivariateConditioned_get_obs_path(r, lab, TRUE)
        r2 == WriteFile(r1, File(lab, "times.tsv"),
                  Table(c, <<"row:", "column:">>, 100,
                        [i \in DOMAIN times.rows |->
                            [j \in DOMAIN times.rows[i] |-> Fmt2f(times.rows[i][j], times.den)]]),
                  FALSE)
        r3 == savetxt(r2, File(lab, "count_cross.tsv"), c, item.counts, <<>>, item.counts.rows, FALSE)
        r4 == savetxt(r3, File(lab, "cross.tsv"), c, item.cross, <<>>, FormatMatrix(item.cross.rows), fails)
    IN  savetxt(r4, File(lab, "std_dev.tsv"), c, item.std_dev, <<>>, FormatMatrix(item.std_dev.rows), FALSE)

(* if not os.path.exists(item_path): raise text.MissingFileError; else the *)
(* file is parsed into the item's field                                    *)
ReadField(r, c, lab, field, path) ==
    IF ~Ok(r) THEN r
    ELSE IF path \notin DOMAIN r.st.disk.files THEN Raise(r, "MissingFileError")
    ELSE LET t == r.st.disk.files[path]
         IN  [r EXCEPT !.st.containers[c].data[lab][field] = Array(Sanitize(t.names), t.den, t.rows)]

BivariateConditioned_read_text(r, c, lab) ==
    LET r1 == BivariateConditioned_get_obs_path(r, lab, TRUE)
        r2 == ReadField(r1, c, lab, "times", File(lab, "times.tsv"))
        r3 == ReadField(r2, c, lab, "counts", File(lab, "count_cross.tsv"))
        r4 == ReadField(r3, c, lab, "cross", File(lab, "cross.tsv"))
    IN  ReadField(r4, c, lab, "std_dev", File(lab, "std_dev.tsv"))

(* for key, val in self._items.items(): val.write_text(...), taken in the  *)
(* order of the condition labels; failAt is the item whose write the       *)
(* environment makes fail ("" for none).                                   *)
RECURSIVE BivariateWriteLoop(_, _, _, _, _)
BivariateWriteLoop(r, c, labels, i, failAt) ==
    IF i > Len(labels) THEN r
    ELSE BivariateWriteLoop(BivariateConditioned_write_text(r, c, labels[i], failAt = labels[i]),
                            c, labels, i + 1, failAt)

Bivariate_export_text(r, c, failAt) ==
    BivariateWriteLoop(r, c, r.st.containers[c].condition_labels, 1, failAt)

RECURSIVE BivariateReadLoop(_, _, _, _)
BivariateReadLoop(r, c, labels, i) ==
    IF i > Len(labels) THEN r
    ELSE BivariateReadLoop(BivariateConditioned_read_text(r, c, labels[i]), c, labels, i + 1)

(* except (MissingFileError, MissingFolderError) as missing:               *)
(*     raise BivariateIOError(missing)                                     *)
Bivariate_import_from_text(r, c) ==
    LET t == BivariateReadLoop(r, c, r.st.containers[c].condition_labels, 1)
    IN  IF t.exc \in MissingSignals
        THEN Raise(Log(t, "wraps_signal", c), "BivariateIOError")
        ELSE t

StationaryBivariateConditioned_get_obs_path(r, lab, write) ==
    LET p1 == get_path(r, AnalysisDir, write)
        p2 == get_path(p1, FilterDir, FALSE)
        p3 == get_path(p2, CondDir(lab), FALSE)
    IN  get_path(p3, BiobsDir(lab), write)

StationaryBivariateConditioned_write_text(r, c, lab, fails) ==
    LET array == r.st.containers[c].data[lab].array
        r1 == StationaryBivariateConditioned_get_obs_path(r, lab, TRUE)
    IN  IF ~Ok(r1) THEN r1
        ELSE IF array.is = "None" THEN r1
        ELSE savetxt(r1, File(lab, "stationary_bivariate.tsv"), c, array, array.names,
                     FormatColumns(array.names, array.rows), fails)

StationaryBivariateConditioned_read_text(r, c, lab) ==
    LET r1 == StationaryBivariateConditioned_get_obs_path(r, lab, FALSE)
    IN  ReadField(r1, c, lab, "array", File(lab, "stationary_bivariate.tsv"))

RECURSIVE StationaryWriteLoop(_, _, _, _, _)
StationaryWriteLoop(r, c, labels, i, failAt) ==
    IF i > Len(labels) THEN r
    ELSE StationaryWriteLoop(
            StationaryBivariateConditioned_write_text(r, c, labels[i], failAt = labels[i]),
            c, labels, i + 1, failAt)

StationaryBivariate_export_text(r, c, failAt) ==
    LET two == r.st.containers[c]
        t == StationaryWriteLoop(r, c, two.condition_labels, 1, failAt)
        u == IF t.exc = "MissingFolderError"
             THEN LET u1 == Univariate_export_text([t EXCEPT !.exc = "none"], two.row)
                      u2 == Univariate_export_text(u1, two.col)
                  IN  StationaryWriteLoop(u2, c, two.condition_labels, 1, failAt)
             ELSE t
    IN  IF ~Ok(u) THEN u
        ELSE IF two.dataframe = "None" THEN u
        ELSE LET p1 == get_path(u, AnalysisDir, TRUE)
                 p2 == get_path(p1, FilterDir, TRUE)
             IN  WriteFile(p2, CsvFile, Table(c, <<"dataframe">>, 1, <<>>), failAt = "csv")

RECURSIVE StationaryReadLoop(_, _, _, _)
StationaryReadLoop(r, c, labels, i) ==
    IF i > Len(labels) THEN r
    ELSE StationaryReadLoop(StationaryBivariateConditioned_read_text(r, c, labels[i]),
                            c, labels, i + 1)

(* pd.read_csv(text_file): a file that does not exist is pandas' own I/O   *)
(* error, not one of tuna.io.text's signals.                               *)
read_csv(r, c) ==
    IF ~Ok(r) THEN r
    ELSE IF CsvFile \notin DOMAIN r.st.disk.files THEN Raise(r, "IOError")
    ELSE [r EXCEPT !.st.containers[c].dataframe = "DataFrame"]

(* except (MissingFileError, MissingFolderError):                          *)
(*     raise StationaryBivariateIOError                                    *)
StationaryBivariate_import_from_text(r, c) ==
    LET t1 == StationaryReadLoop(r, c, r.st.containers[c].condition_labels, 1)
        t2 == get_path(t1, AnalysisDir, FALSE)
        t3 == get_path(t2, FilterDir, FALSE)
        t4 == read_csv(t3, c)
    IN  IF t4.exc \in MissingSignals
        THEN Raise(t4, "StationaryBivariateIOError")
        ELSE t4

(***************************************************************************)
(* api.py: cross correlation                                               *)
(***************************************************************************)
SelfOf(univs, k) == univs[k]

(* univs[k-1] for k in range(2): the other element of the couple           *)
PartnerOf(univs, k) == univs[3 - k]

RECURSIVE UpdateTwoLoop(_, _, _, _)
UpdateTwoLoop(e, univs, two, i) ==
    LET labels == two.labels
    IN  IF i > Len(labels) THEN e
        ELSE LET lab == labels[i]
                 ref == [c |-> two.id, lab |-> lab]
                 e1 == [e EXCEPT ![univs[1]][lab].two = DictSet(@, ObsStr(PartnerOf(univs, 1)), ref)]
                 e2 == [e1 EXCEPT ![univs[2]][lab].two = DictSet(@, ObsStr(PartnerOf(univs, 2)), ref)]
             IN  UpdateTwoLoop(e2, univs, two, i + 1)

_update_univariate_from_bivariate(r, univs, two) ==
    IF ~Ok(r) THEN r
    ELSE [Log(r, "upd_two", two) EXCEPT
            !.st.entries = UpdateTwoLoop(@, univs,
                [id |-> two, labels |-> r.st.containers[two].condition_labels], 1)]

initialize_bivariate(r, row, col) ==
    LET r1 == Bivariate(r, row, col, "initialize")
    IN  _update_univariate_from_bivariate(r1, <<row, col>>, r1.ret)

CompatOutcome(obs1, obs2) ==
    IF obs1.mode # obs2.mode
    THEN IF obs1.mode = "dynamics" \/ obs2.mode = "dynamics" THEN "TypeError"
         ELSE IF obs1.timing = "g"
              THEN (IF obs2.timing # "g" THEN "TypeError" ELSE "none")
              ELSE IF obs2.timing = "g"
                   THEN (IF obs1.timing # "g" THEN "TypeError" ELSE "none")
                   ELSE "none"
    ELSE "none"

CompatGuard(r, row, col) ==
    IF ~Ok(r) THEN r
    ELSE LET o == CompatOutcome(univ[row].obs, univ[col].obs)
         IN  IF o = "none" THEN r ELSE Raise(r, o)

compute_bivariate_link_first(r, row, col, size, fails) ==
    LET r1 == CompatGuard(r, row, col)
        r2 == Bivariate(r1, row, col, "compute")
        r3 == _update_univariate_from_bivariate(r2, <<row, col>>, r2.ret)
        r4 == iter_timeseries_2(r3, size)
    IN  set_crosscorrelation(r4, r2.ret, fails)

compute_bivariate(r, row, col, size, fails) ==
    LET r1 == CompatGuard(r, row, col)
        r2 == Bivariate(r1, row, col, "compute")
        r3 == iter_timeseries_2(r2, size)
        r4 == set_crosscorrelation(r3, r2.ret, fails)
    IN  _update_univariate_from_bivariate(r4, <<row, col>>, r2.ret)

RECURSIVE UpdateTwoStationaryLoop(_, _, _, _)
UpdateTwoStationaryLoop(e, univs, stwo, i) ==
    LET labels == stwo.labels
    IN  IF i > Len(labels) THEN e
        ELSE LET lab == labels[i]
                 ref == [c |-> stwo.id, lab |-> lab]
                 e1 == [e EXCEPT ![univs[1]][lab].two_stationary = DictSet(@, ObsStr(PartnerOf(univs, 1)), ref)]
                 e2 == [e1 EXCEPT ![univs[2]][lab].two_stationary = DictSet(@, ObsStr(PartnerOf(univs, 2)), ref)]
             IN  UpdateTwoStationaryLoop(e2, univs, stwo, i + 1)

_update_univariate_from_stationary_bivariate(r, univs, stwo) ==
    IF ~Ok(r) THEN r
    ELSE [Log(r, "upd_two_stationary", stwo) EXCEPT
            !.st.entries = UpdateTwoStationaryLoop(@, univs,
                [id |-> stwo, labels |-> r.st.containers[stwo].condition_labels], 1)]

initialize_stationary_bivariate(r, row, col, region, options) ==
    LET r1 == StationaryBivariate(r, row, col, region, options, "initialize")
    IN  _update_univariate_from_stationary_bivariate(r1, <<row, col>>, r1.ret)

CaughtAny(exc) == exc # "none"

CaughtAlways(exc) == TRUE

(* except StationaryUnivariateIOError: *)
Caught(exc) == exc = "StationaryUnivariateIOError"

(* One turn of "for univ in univs" (lines 311-318).  corrupt and fails are *)
(* the environment: a cache read failing for another reason than a miss,   *)
(* the autocorrelation engine raising.                                     *)
DependencyTurn(r, u, region, options, corrupt, fails) ==
    IF ~Ok(r) THEN r
    ELSE LET t1 == initialize_stationary_univariate(r, u, region, options)
             t2 == SUnivar_import_from_text(t1, u, corrupt)
         IN  IF Caught(t2.exc)
             THEN LET c0 == [t2 EXCEPT !.exc = "none"]
                      c1 == compute_stationary_univariate(c0, u, region, options, 0, fails)
                      c2 == SUnivar_export_text(c1, u)
                  IN  _update_univariate_from_stationary(c2, u, "computed")
             ELSE _update_univariate_from_stationary(t2, u, "read")

Faults == {"none", "corrupt1", "corrupt2", "auto1", "auto2", "cross"}

compute_stationary_bivariate(r, row, col, region, options, size, fault) ==
    LET d1 == DependencyTurn(r, row, region, options, fault = "corrupt1", fault = "auto1")
        d2 == DependencyTurn(d1, col, region, options, fault = "corrupt2", fault = "auto2")
        r1 == StationaryBivariate(d2, row, col, region, options, "compute")
        r2 == iter_timeseries_2(r1, size)
        r3 == set_stationary_crosscorrelation(r2, r1.ret, fault = "cross")
    IN  _update_univariate_from_stationary_bivariate(r3, <<row, col>>, r1.ret)

(***************************************************************************)
(* The API calls as actions                                                *)
(***************************************************************************)
NoRegion == [attrs |-> {}]
NoGrid == [den |-> 1, tmin |-> 0, tmax |-> 0, period |-> 0, pts |-> <<>>]

Call(op, row, col, region, options, size, r) ==
    [op |-> op, row |-> row, col |-> col, region |-> region, options |-> options,
     size |-> size, exc |-> r.exc, ev |-> r.ev, ret |-> IF Ok(r) THEN r.ret ELSE 0]

Commit(r, call) ==
    /\ entries' = r.st.entries
    /\ cache' = r.st.cache
    /\ containers' = r.st.containers
    /\ eval_times' = r.st.eval_times
    /\ disk' = r.st.disk
    /\ last' = call
    /\ ncalls' = ncalls + 1
    /\ UNCHANGED <<univ, inp>>

(* The environment's fault is drawn only where the call can consult it.    *)
Valid(region, options) == ParamsOutcome(region, options) = "none"

DoInitializeStationaryUnivariate(u, region, options) ==
    LET r == initialize_stationary_univariate(Start, u, region, options)
    IN  Commit(r, Call("initialize_stationary_univariate", u, u, region, options, 0, r))

DoComputeStationaryUnivariate(u, region, options, size, fails) ==
    LET r == compute_stationary_univariate(Start, u, region, options, size, fails)
    IN  Commit(r, Call("compute_stationary_univariate", u, u, region, options, size, r))

DoInitializeBivariate(row, col) ==
    LET r == initialize_bivariate(Start, row, col)
    IN  Commit(r, Call("initialize_bivariate", row, col, NoRegion, NoneOptions, 0, r))

DoComputeBivariate(row, col, size, fails) ==
    LET r == compute_bivariate(Start, row, col, size, fails)
    IN  Commit(r, Call("compute_bivariate", row, col, NoRegion, NoneOptions, size, r))

DoInitializeStationaryBivariate(row, col, region, options) ==
    LET r == initialize_stationary_bivariate(Start, row, col, region, options)
    IN  Commit(r, Call("initialize_stationary_bivariate", row, col, region, options, 0, r))

DoComputeStationaryBivariate(row, col, region, options, size, fault) ==
    LET r == compute_stationary_bivariate(Start, row, col, region, options, size, fault)
    IN  Commit(r, Call("compute_stationary_bivariate", row, col, region, options, size, r))

InitializeStationaryUnivariate ==
    /\ ncalls < MaxCalls
    /\ \E u \in UnivIds, p \in ParamArgs :
        DoInitializeStationaryUnivariate(u, p.region, p.options)

ComputeStationaryUnivariate ==
    /\ ncalls < MaxCalls
    /\ \E u \in UnivIds, p \in ParamArgs, size \in SizeArgs :
        \E fails \in IF Valid(p.region, p.options) THEN BOOLEAN ELSE {FALSE} :
            DoComputeStationaryUnivariate(u, p.region, p.options, size, fails)

InitializeBivariate ==
    /\ ncalls < MaxCalls
    /\ \E row \in UnivIds, col \in UnivIds :
        DoInitializeBivariate(row, col)

ComputeBivariate ==
    /\ ncalls < MaxCalls
    /\ \E row \in UnivIds, col \in UnivIds, size \in SizeArgs, fails \in BOOLEAN :
        DoComputeBivariate(row, col, size, fails)

InitializeStationaryBivariate ==
    /\ ncalls < MaxCalls
    /\ \E row \in UnivIds, col \in UnivIds, p \in ParamArgs :
        DoInitializeStationaryBivariate(row, col, p.region, p.options)

ComputeStationaryBivariate ==
    /\ ncalls < MaxCalls
    /\ \E row \in UnivIds, col \in UnivIds, p \in ParamArgs, size \in SizeArgs :
        \E fault \in IF Valid(p.region, p.options) THEN Faults ELSE {"none"} :
            DoComputeStationaryBivariate(row, col, p.region, p.options, size, fault)

NoCall ==
    [op |-> "none", row |-> 0, col |-> 0, region |-> NoRegion, options |-> NoneOptions,
     size |-> 0, exc |-> "none", ev |-> <<>>, ret |-> 0]

EntriesOf(us) == [u \in UnivIds |-> [lab \in LabelsOf(us[u].cset) |-> EmptyEntry]]

(* The state after construction of the Univariates, with nothing cached.   *)
InitWith(us, input) ==
    /\ univ = us
    /\ entries = EntriesOf(us)
    /\ cache = {}
    /\ containers = <<>>
    /\ eval_times = NoGrid
    /\ disk = EmptyDisk
    /\ last = NoCall
    /\ ncalls = 0
    /\ inp = input

Init == InitWith(Pool, [spec |-> "api"])

Next ==
    \/ InitializeStationaryUnivariate
    \/ ComputeStationaryUnivariate
    \/ InitializeBivariate
    \/ ComputeBivariate
    \/ InitializeStationaryBivariate
    \/ ComputeStationaryBivariate

Spec == Init /\ [][Next]_vars

(***************************************************************************)
(* Validation alone: _check_params on every shape of region and options.   *)
(***************************************************************************)
ParamsInputs ==
    [region : [attrs : SUBSET (RegionAttrs \cup {"adjust_mean"})],
     options : {CompuParams, SubclassOptions, DuckOptions, NoneOptions}]

CheckParams ==
    /\ ncalls < MaxCalls
    /\ LET r == _check_params(Start, inp.region, inp.options)
       IN  Commit(r, Call("_check_params", 0, 0, inp.region, inp.options, 0, r))

InitParams == \E input \in ParamsInputs : InitWith(Pool, input)

NextParams == CheckParams

SpecParams == InitParams /\ [][NextParams]_vars

(***************************************************************************)
(* Time grids: initialize_univariate and compute_univariate_dynamics on    *)
(* every timing, region 'ALL' and sampling period within the bounds.       *)
(***************************************************************************)
GridInputs ==
    {g \in [timing : Timings, tmin : 0..MaxTime, tmax : 0..MaxTime, period : 1..MaxPeriod] :
        g.tmin <= g.tmax}

InitializeUnivariate ==
    /\ ncalls < MaxCalls
    /\ LET r == initialize_univariate(Start, inp.timing, inp, inp.period)
       IN  Commit(r, Call("initialize_univariate", 0, 0, NoRegion, NoneOptions, 0, r))

ComputeUnivariateDynamics ==
    /\ ncalls < MaxCalls
    /\ \E size \in SizeArgs, fails \in BOOLEAN :
        LET r == compute_univariate_dynamics(Start, inp.timing, inp, inp.period, size, fails)
        IN  Commit(r, Call("compute_univariate_dynamics", 0, 0, NoRegion, NoneOptions, size, r))

InitGrid == \E input \in GridInputs : InitWith(Pool, input)

NextGrid ==
    \/ InitializeUnivariate
    \/ ComputeUnivariateDynamics

SpecGrid == InitGrid /\ [][NextGrid]_vars

(***************************************************************************)
(* Observable compatibility: compute_bivariate on Univariates 1 and 2 with *)
(* every combination of mode and timing of their observables.              *)
(***************************************************************************)
ObsInputs == [mode1 : Modes, timing1 : Timings, mode2 : Modes, timing2 : Timings]

WithObs(o) ==
    [Pool EXCEPT ![1].obs.mode = o.mode1, ![1].obs.timing = o.timing1,
                 ![2].obs.mode = o.mode2, ![2].obs.timing = o.timing2]

CompatComputeBivariate ==
    /\ ncalls < MaxCalls
    /\ \E row \in {1, 2}, size \in SizeArgs, fails \in BOOLEAN :
        DoComputeBivariate(row, 3 - row, size, fails)

InitCompat == \E o \in ObsInputs : InitWith(WithObs(o), o)

NextCompat == CompatComputeBivariate

SpecCompat == InitCompat /\ [][NextCompat]_vars

(***************************************************************************)
(* Shared conditions: the two constructors on Univariates 1 and 2 with     *)
(* every pair of condition lists within the bound, and every filter set    *)
(* for Univariate 2.                                                       *)
(***************************************************************************)
Csets == UNION {[1..n -> CondObjs] : n \in 0..MaxCset}

CsetInputs == [cset1 : Csets, cset2 : Csets, fset2 : FsetObjs]

WithCsets(c) ==
    [Pool EXCEPT ![1].cset = c.cset1, ![2].cset = c.cset2, ![2].fset = c.fset2]

PairInitializeBivariate ==
    /\ last.op = "none"
    /\ \E row \in {1, 2}, col \in {1, 2} :
        DoInitializeBivariate(row, col)

PairInitializeStationaryBivariate ==
    /\ last.op = "none"
    /\ \E row \in {1, 2}, col \in {1, 2} :
        DoInitializeStationaryBivariate(row, col, ValidRegion, CompuParams)

InitPair == \E c \in CsetInputs : InitWith(WithCsets(c), c)

NextPair ==
    \/ PairInitializeBivariate
    \/ PairInitializeStationaryBivariate

SpecPair == InitPair /\ [][NextPair]_vars

(***************************************************************************)
(* The text cache of two.py: a Bivariate or a StationaryBivariate of       *)
(* Univariates 1 and 2 is initialized or computed through the API, then    *)
(* exported to and imported from an analysis folder that starts empty,     *)
(* with the Univariates' folders only, with a complete earlier export, or  *)
(* with an earlier export that lacks one file or one folder.               *)
(***************************************************************************)
Kinds == {"Bivariate", "StationaryBivariate"}
PairLabels == LabelsOf(CommonConditions(Pool[1].cset, Pool[2].cset, 1))

KindFiles(kind, lab) ==
    IF kind = "Bivariate"
    THEN {File(lab, "times.tsv"), File(lab, "count_cross.tsv"),
          File(lab, "cross.tsv"), File(lab, "std_dev.tsv")}
    ELSE {File(lab, "stationary_bivariate.tsv")}

UnivDirs ==
    {AnalysisDir, FilterDir}
        \cup {CondDir(lab) : lab \in LabelsOf(Pool[1].cset) \cup LabelsOf(Pool[2].cset)}

OldTable(path) ==
    IF path.f = "times.tsv" THEN Table(0, <<"row:", "column:">>, 100, <<<<0, 100>>, <<0, 100>>>>)
    ELSE IF path.f = "stationary_bivariate.tsv"
         THEN Table(0, <<"time_interval", "count", "cross_correlation">>, 1, <<<<0, 5, 9>>>>)
    ELSE IF path.f = "data.csv" THEN Table(0, <<"dataframe">>, 1, <<>>)
    ELSE Table(0, <<>>, 1, <<<<5>>>>)

FullDisk(kind) ==
    LET paths == UNION {KindFiles(kind, lab) : lab \in PairLabels}
                    \cup (IF kind = "StationaryBivariate" THEN {CsvFile} ELSE {})
    IN  [dirs |-> UnivDirs \cup {BiobsDir(lab) : lab \in PairLabels},
         files |-> [path \in paths |-> OldTable(path)]]

WithoutFile(d, path) ==
    [dirs |-> d.dirs, files |-> [q \in (DOMAIN d.files) \ {path} |-> d.files[q]]]

WithoutDir(d, dir) ==
    [dirs |-> d.dirs \ {dir},
     files |-> [q \in {x \in DOMAIN d.files : ~(x.d = dir.d /\ x.lab = dir.lab)} |-> d.files[q]]]

InitialDisks(kind) ==
    {EmptyDisk, [dirs |-> UnivDirs, files |-> EmptyDict], FullDisk(kind),
     WithoutDir(FullDisk(kind), BiobsDir("cB"))}
        \cup (IF kind = "Bivariate"
              THEN {WithoutFile(FullDisk(kind), File("cB", "cross.tsv"))}
              ELSE {WithoutFile(FullDisk(kind), File("cB", "stationary_bivariate.tsv")),
                    WithoutFile(FullDisk(kind), CsvFile)})

CrossValues == {12, 1234567894}

CacheInputs ==
    [kind : {"Bivariate"}, period8 : {1, 2}, cross : CrossValues,
     crossname : {"cross_correlation"}, dataframe : {TRUE},
     disk0 : InitialDisks("Bivariate")]
        \cup [kind : {"StationaryBivariate"}, period8 : {8}, cross : CrossValues,
              crossname : {"cross_correlation", "cross-correlation"}, dataframe : BOOLEAN,
              disk0 : InitialDisks("StationaryBivariate")]

DoExportText(c, failAt) ==
    LET r == IF containers[c].kind = "Bivariate"
             THEN Bivariate_export_text(Start, c, failAt)
             ELSE StationaryBivariate_export_text(Start, c, failAt)
    IN  Commit(r, Call("export_text", c, c, NoRegion, NoneOptions, 0, r))

DoImportFromText(c) ==
    LET r == IF containers[c].kind = "Bivariate"
             THEN Bivariate_import_from_text(Start, c)
             ELSE StationaryBivariate_import_from_text(Start, c)
    IN  Commit(r, Call("import_from_text", c, c, NoRegion, NoneOptions, 0, r))

CacheInitialize ==
    /\ ncalls < MaxCacheCalls
    /\ IF inp.kind = "Bivariate"
       THEN DoInitializeBivariate(1, 2)
       ELSE DoInitializeStationaryBivariate(1, 2, ValidRegion, CompuParams)

CacheCompute ==
    /\ ncalls < MaxCacheCalls
    /\ \E fails \in BOOLEAN :
        IF inp.kind = "Bivariate"
        THEN DoComputeBivariate(1, 2, 0, fails)
        ELSE DoComputeStationaryBivariate(1, 2, ValidRegion, CompuParams, 0,
                                          IF fails THEN "cross" ELSE "none")

(* The caller holds the containers that a call returned.                   *)
Held == {c \in DOMAIN containers : containers[c].status # "partial"}

CacheExportText ==
    /\ ncalls < MaxCacheCalls
    /\ \E c \in Held, failAt \in {"", "cB", "csv"} :
        DoExportText(c, failAt)

CacheImportFromText ==
    /\ ncalls < MaxCacheCalls
    /\ \E c \in Held :
        DoImportFromText(c)

InitCache ==
    \E input \in CacheInputs :
        /\ univ = Pool
        /\ entries = EntriesOf(Pool)
        /\ cache = {}
        /\ containers = <<>>
        /\ eval_times = NoGrid
        /\ disk = input.disk0
        /\ last = NoCall
        /\ ncalls = 0
        /\ inp = input

NextCache ==
    \/ CacheInitialize
    \/ CacheCompute
    \/ CacheExportText
    \/ CacheImportFromText

SpecCache == InitCache /\ [][NextCache]_vars

(***************************************************************************)
(* Properties                                                              *)
(***************************************************************************)
IterEvents == {"iter1", "iter2"}
EngineEvents == {"engine_dynamics", "engine_auto", "engine_cross", "engine_scross"}
PairOps ==
    {"initialize_bivariate", "compute_bivariate",
     "initialize_stationary_bivariate", "compute_stationary_bivariate"}

EvNames(ev) == {ev[i].e : i \in DOMAIN ev}
Happened(ev, e, a) == \E i \in DOMAIN ev : ev[i].e = e /\ ev[i].a = a
Count(ev, names) == Cardinality({i \in DOMAIN ev : ev[i].e \in names})

Mismatched(row, col) ==
    \/ univ[row].abspath # univ[col].abspath
    \/ Repr(univ[row].fset) # Repr(univ[col].fset)

ValidParams(region, options) ==
    /\ options.isCompuParams
    /\ {"name", "tmin", "tmax"} \subseteq region.attrs

(* C1 (as claimed, on calls whose region and options are valid where the   *)
(* call takes them): a call of one of the four pairing operations on two   *)
(* Univariates of different experiments or filter sets raises              *)
(* BivariateError, acquires no iterator, calls no engine and leaves every  *)
(* Univariate entry and the cache as they were.                            *)
C1_PairingErrorBeforeAnything ==
    [][(/\ ncalls' = ncalls + 1
        /\ last'.op \in PairOps
        /\ Mismatched(last'.row, last'.col)
        /\ (last'.op \in {"initialize_stationary_bivariate", "compute_stationary_bivariate"}
              => ValidParams(last'.region, last'.options)))
       => (/\ last'.exc = "BivariateError"
           /\ EvNames(last'.ev) \cap (IterEvents \cup EngineEvents) = {}
           /\ entries' = entries
           /\ cache' = cache)]_vars

(* C2 (as claimed): compute_bivariate raises TypeError, with no iterator   *)
(* acquired, when exactly one observable is in dynamics mode, and when     *)
(* neither is and exactly one of them is in generation timing.             *)
C2_CompatibilityError ==
    last.op = "compute_bivariate" =>
        LET o1 == univ[last.row].obs
            o2 == univ[last.col].obs
            oneDynamics == (o1.mode = "dynamics") # (o2.mode = "dynamics")
            noDynamics == o1.mode # "dynamics" /\ o2.mode # "dynamics"
            oneGeneration == (o1.timing = "g") # (o2.timing = "g")
        IN  (oneDynamics \/ (noDynamics /\ oneGeneration))
                => (last.exc = "TypeError" /\ EvNames(last.ev) \cap IterEvents = {})

(* C3: in compute_stationary_bivariate every step of the cross phase comes *)
(* after, for each of the two Univariates, a successful cache read or an   *)
(* autocorrelation engine call followed by a cache write; every            *)
(* single-observable iterator and autocorrelation call follows a cache     *)
(* miss of that turn; a read failing otherwise ends the call there.        *)
CrossPhase == {"new_sbivar", "iter2", "engine_scross", "upd_two_stationary"}

Ready(ev, i, u) ==
    \/ \E j \in 1..(i - 1) : ev[j].e = "read_ok" /\ ev[j].a = u
    \/ \E j \in 1..(i - 1), k \in 1..(i - 1) :
            /\ j < k
            /\ ev[j].e = "engine_auto" /\ ev[j].a = u
            /\ ev[k].e = "write_sunivar" /\ ev[k].a = u

LastRead(ev, i) ==
    LET reads == {j \in 1..(i - 1) : ev[j].e \in {"read_ok", "read_miss", "read_err"}}
    IN  IF reads = {} THEN "none" ELSE ev[CHOOSE j \in reads : \A k \in reads : k <= j].e

C3_DependenciesBeforeCross ==
    last.op = "compute_stationary_bivariate" =>
        /\ \A i \in DOMAIN last.ev :
              last.ev[i].e \in CrossPhase => Ready(last.ev, i, last.row) /\ Ready(last.ev, i, last.col)
        /\ \A i \in DOMAIN last.ev :
              last.ev[i].e \in {"iter1", "engine_auto", "write_sunivar"}
                  => LastRead(last.ev, i) = "read_miss"
        /\ \A i \in DOMAIN last.ev :
              last.ev[i].e = "read_err" => (i = Len(last.ev) /\ last.exc = "OtherError")

C3_Witness ==
    /\ last.op = "compute_stationary_bivariate"
    /\ last.exc = "none"
    /\ last.row # last.col
    /\ Happened(last.ev, "read_ok", last.row)
    /\ Happened(last.ev, "read_miss", last.col)
    /\ Happened(last.ev, "engine_scross", last.ret)

(* C4: a compute_stationary_bivariate call that finds both caches and      *)
(* reads them back acquires no single-observable iterator, makes no        *)
(* autocorrelation call and writes nothing to the cache; its only engine   *)
(* call is the stationary cross-correlation fill, made once when the call  *)
(* returns.                                                                *)
C4_NoRecomputation ==
    [][(/\ ncalls' = ncalls + 1
        /\ last'.op = "compute_stationary_bivariate"
        /\ {last'.row, last'.col} \subseteq cache
        /\ Happened(last'.ev, "read_ok", last'.row)
        /\ Happened(last'.ev, "read_ok", last'.col))
       => (/\ EvNames(last'.ev) \cap {"iter1", "engine_auto", "write_sunivar"} = {}
           /\ cache' = cache
           /\ Count(last'.ev, EngineEvents) = Count(last'.ev, {"engine_scross"})
           /\ Count(last'.ev, EngineEvents) <= 1
           /\ (last'.exc = "none" => Count(last'.ev, EngineEvents) = 1))]_vars

C4_Witness ==
    /\ last.op = "compute_stationary_bivariate"
    /\ last.exc = "none"
    /\ last.row # last.col
    /\ Happened(last.ev, "read_ok", last.row)
    /\ Happened(last.ev, "read_ok", last.col)
    /\ Count(last.ev, EngineEvents) = 1

(* The back-reference fields of an entry, by the operation that sets them. *)
LinkField(op, entry) ==
    IF op \in {"initialize_bivariate", "compute_bivariate"} THEN entry.two ELSE entry.two_stationary

HasLink(op, u, lab, key, c) ==
    LET d == LinkField(op, entries[u][lab])
    IN  key \in DOMAIN d /\ d[key] = [c |-> c, lab |-> lab]

SharedLabels(row, col) == LabelsOf(univ[row].cset) \cap LabelsOf(univ[col].cset)

(* C5 (as claimed): after a successful compute_bivariate or                *)
(* compute_stationary_bivariate every entry of both Univariates, 'master'  *)
(* and each of their conditions, references the result's item under the    *)
(* partner observable's label.                                             *)
C5_AllEntriesLinked ==
    (last.op \in {"compute_bivariate", "compute_stationary_bivariate"} /\ last.exc = "none") =>
        /\ \A lab \in DOMAIN entries[last.row] :
              HasLink(last.op, last.row, lab, univ[last.col].obs.label, last.ret)
        /\ \A lab \in DOMAIN entries[last.col] :
              HasLink(last.op, last.col, lab, univ[last.row].obs.label, last.ret)

(* C5 (amended): after a successful compute_bivariate or                   *)
(* compute_stationary_bivariate the 'master' entry and the entry of each   *)
(* condition shared by the two Univariates reference, in both Univariates, *)
(* the result's item of that condition under the partner observable's      *)
(* label.                                                                  *)
C5_SharedEntriesLinked ==
    (last.op \in {"compute_bivariate", "compute_stationary_bivariate"} /\ last.exc = "none") =>
        \A lab \in SharedLabels(last.row, last.col) :
            /\ lab \in DOMAIN containers[last.ret].items
            /\ HasLink(last.op, last.row, lab, univ[last.col].obs.label, last.ret)
            /\ HasLink(last.op, last.col, lab, univ[last.row].obs.label, last.ret)

C5_Witness ==
    /\ last.op \in {"compute_bivariate", "compute_stationary_bivariate"}
    /\ last.exc = "none"
    /\ univ[last.row].obs.label # univ[last.col].obs.label
    /\ SharedLabels(last.row, last.col) # {"master"}
    /\ HasLink(last.op, last.row, "cB", univ[last.col].obs.label, last.ret)
    /\ DOMAIN entries[last.row] # SharedLabels(last.row, last.col)

Links ==
    UNION {[u : {u}, lab : DOMAIN entries[u], field : {"two", "two_stationary"},
            key : {univ[v].obs.label : v \in UnivIds}] : u \in UnivIds}

LinkDict(l) ==
    IF l.field = "two" THEN entries[l.u][l.lab].two ELSE entries[l.u][l.lab].two_stationary

Linked(l) == l.key \in DOMAIN LinkDict(l)

Target(l) == containers[LinkDict(l)[l.key].c]

(* C6 (as claimed): every back-reference held by a Univariate entry        *)
(* points to an item of a container filled by a successful compute.        *)
C6_LinksOnlyToComputed ==
    \A l \in Links : Linked(l) => (Target(l).origin = "compute" /\ Target(l).status = "filled")

(* C6 (amended): every back-reference held by a Univariate entry points to *)
(* an item of a container that initialize_bivariate or                     *)
(* initialize_stationary_bivariate constructed (still empty) or that a     *)
(* successful compute filled; no entry references an item of a container   *)
(* whose compute failed.                                                   *)
C6_LinksToInitializedOrComputed ==
    \A l \in Links : Linked(l) =>
        /\ LinkDict(l)[l.key].c \in DOMAIN containers
        /\ LinkDict(l)[l.key].lab \in DOMAIN Target(l).items
        /\ Target(l).kind = (IF l.field = "two" THEN "Bivariate" ELSE "StationaryBivariate")
        /\ \/ Target(l).origin = "initialize" /\ Target(l).status = "empty"
           \/ Target(l).origin = "compute" /\ Target(l).status = "filled"

C6_Witness ==
    /\ \E c \in DOMAIN containers :
          containers[c].origin = "compute" /\ containers[c].status = "partial"
    /\ \E l \in Links : Linked(l) /\ Target(l).origin = "initialize"

(* C7: _check_params returns iff options is a CompuParams instance and     *)
(* region has name, tmin and tmax; otherwise it raises ParamsError.        *)
C7_CheckParams ==
    last.op = "_check_params" =>
        /\ last.exc \in {"none", "ParamsError"}
        /\ (last.exc = "none") <=>
              (inp.options.isCompuParams /\ {"name", "tmin", "tmax"} \subseteq inp.region.attrs)

C7_Witness ==
    /\ last.op = "_check_params"
    /\ last.exc = "ParamsError"
    /\ inp.options.isCompuParams
    /\ inp.region.attrs = {"tmin", "tmax", "adjust_mean"}

(* C8 (as claimed, on Univariates that pair): each of the four operations  *)
(* that construct a stationary container, called with an invalid region or *)
(* invalid options, raises ParamsError and constructs no stationary        *)
(* container.                                                              *)
StationaryOps ==
    {"initialize_stationary_univariate", "compute_stationary_univariate",
     "initialize_stationary_bivariate", "compute_stationary_bivariate"}

C8_ValidationFirst ==
    (/\ last.op \in StationaryOps
     /\ ~Mismatched(last.row, last.col)
     /\ ~ValidParams(last.region, last.options))
    => (/\ last.exc = "ParamsError"
        /\ EvNames(last.ev) \cap {"new_sunivar", "new_sbivar"} = {})

(* C9: the conditions of a Bivariate or StationaryBivariate are the        *)
(* conditions of the row Univariate whose repr is the repr of a condition  *)
(* of the column Univariate, in the row's order; the container's items are *)
(* 'master' and one per shared condition.                                  *)
SharedOf(row, col) ==
    LET InCol(cdt) == \E j \in DOMAIN univ[col].cset : Repr(univ[col].cset[j]) = Repr(cdt)
    IN  SelectSeq(univ[row].cset, InCol)

C9_SharedConditions ==
    (last.op \in {"initialize_bivariate", "initialize_stationary_bivariate"} /\ last.exc = "none") =>
        LET c == containers[last.ret]
            shared == SharedOf(last.row, last.col)
        IN  /\ c.cset = shared
            /\ c.condition_labels = <<"master">> \o [i \in DOMAIN shared |-> Repr(shared[i])]
            /\ DOMAIN c.items = {"master"} \cup {Repr(shared[i]) : i \in DOMAIN shared}
            /\ \A lab \in DOMAIN c.items : c.items[lab].condition = lab

C9_Witness ==
    /\ last.op \in {"initialize_bivariate", "initialize_stationary_bivariate"}
    /\ last.exc = "none"
    /\ last.row # last.col
    /\ Len(univ[last.row].cset) = 2
    /\ Len(containers[last.ret].cset) = 1
    /\ containers[last.ret].cset[1] = univ[last.row].cset[2]
    /\ containers[last.ret].cset[1] \notin Range(univ[last.col].cset)
    /\ Cardinality(LabelsOf(univ[last.col].cset)) = 3

(* The grid of the last initialize_univariate / compute_univariate_dynamics *)
(* call against its inputs; times are numerators over eval_times.den.      *)
GridOps == {"initialize_univariate", "compute_univariate_dynamics"}

WantDen == IF inp.timing = "g" THEN MIN_INTERDIVISION_TIME ELSE 1
WantTmin == IF inp.timing = "g" THEN -(inp.tmax - inp.tmin) ELSE inp.tmin
WantTmax == IF inp.timing = "g" THEN inp.tmax - inp.tmin ELSE inp.tmax
WantPeriod == IF inp.timing = "g" THEN MIN_INTERDIVISION_TIME ELSE inp.period

Arithmetic(pts, start, step) ==
    /\ Len(pts) >= 1
    /\ pts[1] = start
    /\ \A i \in 1..(Len(pts) - 1) : pts[i + 1] - pts[i] = step

ArtifactsOf(c) ==
    UNION {KindFiles(containers[c].kind, lab) : lab \in DOMAIN containers[c].items}

WrittenBy(c) ==
    {path \in DOMAIN disk.files : disk.files[path].by = c /\ path # CsvFile}

(* C11 (as claimed): of every container the disk holds either no file or   *)
(* the files of all its conditions, and a container that wrote files was   *)
(* filled by a successful compute.                                         *)
C11_CacheNeverPartial ==
    \A c \in DOMAIN containers :
        \/ WrittenBy(c) = {}
        \/ /\ WrittenBy(c) = ArtifactsOf(c)
           /\ containers[c].origin = "compute"
           /\ containers[c].status = "filled"

(* The folders and files import_from_text of container c reads.            *)
DirsRead(c) ==
    {AnalysisDir, FilterDir}
        \cup UNION {{CondDir(lab), BiobsDir(lab)} : lab \in DOMAIN containers[c].items}

FilesRead(c) ==
    ArtifactsOf(c) \cup (IF containers[c].kind = "StationaryBivariate" THEN {CsvFile} ELSE {})

Lacks(c) ==
    \/ ~(DirsRead(c) \subseteq disk.dirs)
    \/ ~(FilesRead(c) \subseteq DOMAIN disk.files)

OwnIOError(kind) ==
    IF kind = "Bivariate" THEN "BivariateIOError" ELSE "StationaryBivariateIOError"

(* C12 (as claimed): import_from_text of a container whose cache lacks a   *)
(* folder or a file it reads raises the container's own cache-miss error.  *)
C12_CacheMissError ==
    [][(/\ ncalls' = ncalls + 1
        /\ last'.op = "import_from_text"
        /\ Lacks(last'.row))
       => last'.exc = OwnIOError(containers[last'.row].kind)]_vars

Abs(x) == IF x < 0 THEN -x ELSE x

(* n1 / d1 and n2 / d2 agree to eight significant digits                   *)
Within8(n1, d1, n2, d2) ==
    Abs(n1 * d2 - n2 * d1) <= (Abs(n1) * d2) \div 100000000

SameShape(a, b) ==
    /\ a.is = "array" /\ b.is = "array"
    /\ DOMAIN a.rows = DOMAIN b.rows
    /\ \A i \in DOMAIN a.rows : DOMAIN a.rows[i] = DOMAIN b.rows[i]

Close(a, b) ==
    /\ SameShape(a, b)
    /\ \A i \in DOMAIN a.rows : \A j \in DOMAIN a.rows[i] :
          Within8(a.rows[i][j], a.den, b.rows[i][j], b.den)

Exact(a, b) ==
    /\ SameShape(a, b)
    /\ \A i \in DOMAIN a.rows : \A j \in DOMAIN a.rows[i] :
          a.rows[i][j] * b.den = b.rows[i][j] * a.den

(* the names the accessors time, count and crosscorr index the array with  *)
AccessorNames == {"time_interval", "count", "cross_correlation"}

Reproduces(kind, written, read) ==
    IF kind = "Bivariate"
    THEN /\ Close(ItemTimes(written), read.times)
         /\ Exact(written.counts, read.counts)
         /\ Close(written.cross, read.cross)
         /\ Close(written.std_dev, read.std_dev)
    ELSE /\ Close(written.array, read.array)
         /\ \A j \in DOMAIN written.array.names :
               written.array.names[j] = "count" =>
                   \A i \in DOMAIN written.array.rows :
                       read.array.rows[i][j] = written.array.rows[i][j]
         /\ AccessorNames \subseteq Range(read.array.names)

(* C13 (as claimed): export_text of a computed container followed by       *)
(* import_from_text on an initialized container of the same Univariates    *)
(* returns and leaves in every item what the computed item held: counts    *)
(* exactly, times, cross-statistics and standard deviations to eight       *)
(* significant digits, each column under its accessor's name.              *)
C13_RoundTrip ==
    [][(/\ ncalls' = ncalls + 1
        /\ last.op = "export_text"
        /\ last.exc = "none"
        /\ containers[last.row].origin = "compute"
        /\ containers[last.row].status = "filled"
        /\ last'.op = "import_from_text"
        /\ containers[last'.row].origin = "initialize")
       => (/\ last'.exc = "none"
           /\ \A lab \in DOMAIN containers[last.row].data :
                 Reproduces(containers[last.row].kind,
                            containers[last.row].data[lab],
                            containers'[last'.row].data[lab]))]_vars

(* C14 (as claimed): in a compute_stationary_bivariate call made with a    *)
(* size limit n every lineage iterator of the call is acquired with the    *)
(* limit n, the single-observable iterators of the dependency phase        *)
(* included.                                                               *)
C14_AllIteratorsBounded ==
    (last.op = "compute_stationary_bivariate" /\ last.size # 0) =>
        \A i \in DOMAIN last.ev :
            last.ev[i].e \in IterEvents => last.ev[i].a = last.size

(* C15 (as claimed): import_from_text leaves the disk as it was: it        *)
(* creates no folder and no file, whether it returns or raises.            *)
C15_ReadsLeaveDiskUnchanged ==
    [][(ncalls' = ncalls + 1 /\ last'.op = "import_from_text") => disk' = disk]_vars

====
